---------------------------- MODULE Spec2Model ----------------------------
(***************************************************************************)
(* The progression calculator of the web-novel workbench                   *)
(* (the Calculator component: src/unnamed/part_000, also inlined in        *)
(* src/index.tsx lines 434-462) and the project store that feeds it        *)
(* (src/store.tsx).                                                        *)
(*                                                                         *)
(* A formula is a sequence of one-character strings.  Numbers are the      *)
(* host's double values, kept exactly as reduced fractions while they fit  *)
(* MaxExact, together with the special values the host arithmetic has:     *)
(* negative zero, the two infinities and not-a-number.                     *)
(***************************************************************************)
EXTENDS Integers, Sequences, FiniteSets, TLC

VARIABLES
    systemRules,    \* project.systemRules : [xpCurve, xpBase, xpFactor, formulas : [hp, mp]]
    data,           \* the memoized table of the Calculator
    f,              \* the formula handed to evalFormula
    lvl,            \* the level i of the iteration under study
    ret,            \* what that call of evalFormula returned
    fnMade,         \* whether that call constructed and ran a Function
    pc,             \* "call" before evalFormula runs, "done" after;
                    \* "curve" before the experience of a level is computed,
                    \* "clamped" after; "mounted" before a saved project is
                    \* loaded, "loaded" after; "loop" while the callback of
                    \* useMemo runs, "returned" or "thrown" after
    cfg,            \* the curve under study : [kind, base, factor]
    xpRaw,          \* its experience for level lvl before the clamp
    xpNeeded,       \* its experience for level lvl after the clamp
    loopTotal,      \* total of the callback of useMemo while its loop runs
    loopRows,       \* rows of the callback of useMemo while its loop runs
    notifications,  \* the notifications state of the ProjectProvider; each
                    \* message carries the number of the call that added it
    timers,         \* the pending timers of addNotification, earliest first
    calls,          \* how many times addNotification has been called
    project,        \* the project state of the ProjectProvider
    storage,        \* localStorage item 'webnovel_project'
    updates,        \* state updates queued by setProjectState, oldest first
    effects,        \* effects React has still to run, next first
    strict,         \* whether React.StrictMode is active (development build)
    atMount,        \* what the storage held when the provider mounted
    edits           \* how many times updateProject has been called

vars ==
    <<systemRules, data, f, lvl, ret, fnMade, pc, cfg, xpRaw, xpNeeded, loopTotal, loopRows,
      notifications, timers, calls, project, storage, updates, effects, strict, atMount, edits>>

calcVars == <<systemRules, data>>
evalVars == <<f, lvl, ret, fnMade, pc>>
curveVars == <<cfg, xpRaw, xpNeeded>>
loopVars == <<loopTotal, loopRows>>
noteVars == <<notifications, timers, calls>>
storeVars == <<project, storage, updates, effects, strict, atMount, edits>>
providerVars == <<noteVars, storeVars>>

-----------------------------------------------------------------------------
(* Characters *)

Digits == {"0", "1", "2", "3", "4", "5", "6", "7", "8", "9"}
OctalDigits == {"0", "1", "2", "3", "4", "5", "6", "7"}

\* White space and line terminators of the host language; together they are
\* exactly what \s matches.
WhiteSpace == {" ", "\t"}
LineTerminators == {"\n", "\r"}

DigitVal(c) ==
    CASE c = "0" -> 0 [] c = "1" -> 1 [] c = "2" -> 2 [] c = "3" -> 3
      [] c = "4" -> 4 [] c = "5" -> 5 [] c = "6" -> 6 [] c = "7" -> 7
      [] c = "8" -> 8 [] c = "9" -> 9

DigitChar(n) ==
    CASE n = 0 -> "0" [] n = 1 -> "1" [] n = 2 -> "2" [] n = 3 -> "3"
      [] n = 4 -> "4" [] n = 5 -> "5" [] n = 6 -> "6" [] n = 7 -> "7"
      [] n = 8 -> "8" [] n = 9 -> "9"

\* String(n) for a non-negative integer n: its decimal digits.
RECURSIVE NumberToString(_)
NumberToString(n) ==
    IF n < 10 THEN <<DigitChar(n)>>
    ELSE Append(NumberToString(n \div 10), DigitChar(n % 10))

-----------------------------------------------------------------------------
(* Values of the host language *)

\* Largest whole part and denominator the model keeps exactly.
MaxExact == 1000000000

\* A value: its kind t and, for a number, the whole part w = floor(value) and
\* the fraction n/d left over, 0 <= n < d, in lowest terms.  The kinds that
\* keep only a sign keep it in w.
Val(t, w, n, d) == [t |-> t, w |-> w, n |-> n, d |-> d]

NaN == Val("nan", 0, 0, 1)
NegZero == Val("negzero", 0, 0, 1)
Infinity(sign) == Val("inf", sign, 0, 1)
\* A finite double whose magnitude is above MaxExact.
Huge(sign) == Val("huge", sign, 0, 1)
\* A finite double the model does not track at all: its fraction does not fit
\* MaxExact, or it is not a fraction.
Approx(sign) == Val("approx", sign, 0, 1)
\* Number.MAX_VALUE, the largest finite double, and its negative: what
\* parseFloat gives for 1.7976931348623157e308 and the value past which a
\* product overflows to an infinity.
MaxValue(sign) == Val("max", sign, 0, 1)
Undefined == Val("undefined", 0, 0, 1)
RegExpObject == Val("regexp", 0, 0, 1)
StringValue == Val("string", 0, 0, 1)
\* An abrupt completion: an exception on its way to the nearest catch.
Throw == Val("throw", 0, 0, 1)
\* The marker evalFormula returns for a formula it could not evaluate.
Err == Val("Err", 0, 0, 1)

Abs(x) == IF x < 0 THEN -x ELSE x

RECURSIVE GCD(_, _)
GCD(a, b) == IF b = 0 THEN a ELSE GCD(b, a % b)

\* a * b fits the integers the model computes with.
SafeMul(a, b) == a = 0 \/ b = 0 \/ Abs(a) <= MaxExact \div Abs(b)

\* The double nn/dd for integers nn and dd > 0.
Num(nn, dd) ==
    LET w == nn \div dd
        r == nn % dd
        g == GCD(r, dd)
    IN  IF Abs(w) > MaxExact THEN Huge(IF w < 0 THEN -1 ELSE 1)
        ELSE IF dd \div g > MaxExact THEN Approx(IF w < 0 THEN -1 ELSE 1)
        ELSE Val("num", w, r \div g, dd \div g)

Zero(sign) == IF sign < 0 THEN NegZero ELSE Num(0, 1)

IsZero(v) == v.t = "negzero" \/ (v.t = "num" /\ v.w = 0 /\ v.n = 0)

SignOf(v) ==
    CASE v.t = "num" -> IF v.w < 0 THEN -1 ELSE 1
      [] v.t = "negzero" -> -1
      [] v.t \in {"inf", "huge", "approx", "max"} -> v.w
      [] OTHER -> 1

\* |v| >= 1 and |v| <= 1 for a number v.
AtLeastOne(v) == v.w >= 1 \/ v.w <= -2 \/ (v.w = -1 /\ v.n = 0)
AtMostOne(v) == v.w = 0 \/ v.w = -1 \/ (v.w = 1 /\ v.n = 0)
\* |v| = 1 for a number v of kind "num".
IsUnit(v) == v.n = 0 /\ (v.w = 1 \/ v.w = -1)

\* ToNumber: a RegExp object and the strings built from one are not numeric
\* text, undefined is not a number.
ToNumber(v) ==
    IF v.t \in {"num", "negzero", "inf", "nan", "huge", "approx", "max", "throw"} THEN v
    ELSE NaN

Neg(v) ==
    CASE v.t = "nan" -> NaN
      [] v.t = "negzero" -> Num(0, 1)
      [] v.t = "num" ->
            IF IsZero(v) THEN NegZero
            ELSE IF v.n = 0 THEN Val("num", -v.w, 0, 1)
            ELSE Val("num", -v.w - 1, v.d - v.n, v.d)
      [] v.t = "inf" -> Infinity(-v.w)
      [] v.t = "huge" -> Huge(-v.w)
      [] v.t = "approx" -> Approx(-v.w)
      [] v.t = "max" -> MaxValue(-v.w)

\* The sum of two numbers of kind "num".
FracAdd(a, b) ==
    LET g == GCD(a.d, b.d)
    IN  IF ~SafeMul(a.d \div g, b.d) THEN Approx(IF a.w + b.w < 0 THEN -1 ELSE 1)
        ELSE LET dd == (a.d \div g) * b.d
                 m == a.n * (dd \div a.d) + b.n * (dd \div b.d)
                 w == a.w + b.w + (m \div dd)
                 r == m % dd
                 h == GCD(r, dd)
             IN  IF Abs(w) > MaxExact THEN Huge(IF w < 0 THEN -1 ELSE 1)
                 ELSE Val("num", w, r \div h, dd \div h)

NumAdd(a, b) ==
    CASE a.t = "nan" \/ b.t = "nan" -> NaN
      [] a.t = "inf" /\ b.t = "inf" -> IF a.w = b.w THEN a ELSE NaN
      [] a.t = "inf" -> a
      [] b.t = "inf" -> b
      [] a.t = "max" /\ b.t = "max" -> IF a.w = b.w THEN Infinity(a.w) ELSE Num(0, 1)
      [] a.t = "max" -> IF b.t \in {"num", "negzero"} THEN a ELSE Approx(SignOf(b))
      [] b.t = "max" -> IF a.t \in {"num", "negzero"} THEN b ELSE Approx(SignOf(a))
      [] a.t = "approx" -> a
      [] b.t = "approx" -> b
      [] IsZero(a) /\ IsZero(b) ->
            IF a.t = "negzero" /\ b.t = "negzero" THEN NegZero ELSE Num(0, 1)
      [] IsZero(a) -> b
      [] IsZero(b) -> a
      [] a.t = "huge" \/ b.t = "huge" ->
            IF SignOf(a) = SignOf(b) THEN Huge(SignOf(a)) ELSE Approx(SignOf(a))
      [] OTHER -> FracAdd(a, b)

\* x + y for two results of Num or FracAdd, either of which may have left
\* the exact range.
SumOf(x, y, s) ==
    IF x.t = "num" /\ y.t = "num" THEN FracAdd(x, y)
    ELSE IF x.t = "huge" \/ y.t = "huge" THEN Huge(s) ELSE Approx(s)

\* The product of two numbers of kind "num", term by term:
\* (w1 + n1/d1)(w2 + n2/d2) = w1 w2 + w1 n2/d2 + w2 n1/d1 + n1 n2/(d1 d2).
FracMul(a, b) ==
    IF ~SafeMul(a.w, b.w) THEN Huge(SignOf(a) * SignOf(b))
    ELSE IF ~(SafeMul(a.w, b.n) /\ SafeMul(b.w, a.n) /\ SafeMul(a.d, b.d))
         THEN Approx(SignOf(a) * SignOf(b))
    ELSE SumOf(SumOf(Num(a.w * b.w, 1), Num(a.w * b.n, b.d), SignOf(a) * SignOf(b)),
               SumOf(Num(b.w * a.n, a.d), Num(a.n * b.n, a.d * b.d), SignOf(a) * SignOf(b)),
               SignOf(a) * SignOf(b))

\* Number.MAX_VALUE times a number v # 0, with the sign s of the product: an
\* infinity when |v| > 1, for the least tracked |v| above 1 is 1 + 1/MaxExact
\* and the product rounds to an infinity from 1 + 2^-54 on.
TimesMaxValue(v, s) ==
    CASE v.t \in {"max", "huge"} -> Infinity(s)
      [] v.t = "approx" -> Approx(s)
      [] IsUnit(v) -> MaxValue(s)
      [] AtLeastOne(v) -> Infinity(s)
      [] OTHER -> Huge(s)

NumMul(a, b) ==
    LET s == SignOf(a) * SignOf(b)
    IN  CASE a.t = "nan" \/ b.t = "nan" -> NaN
          [] (a.t = "inf" /\ IsZero(b)) \/ (IsZero(a) /\ b.t = "inf") -> NaN
          [] a.t = "inf" \/ b.t = "inf" -> Infinity(s)
          [] IsZero(a) \/ IsZero(b) -> Zero(s)
          [] a.t = "max" -> TimesMaxValue(b, s)
          [] b.t = "max" -> TimesMaxValue(a, s)
          [] a.t = "approx" \/ b.t = "approx" -> Approx(s)
          [] a.t = "huge" /\ b.t = "huge" -> Huge(s)
          [] a.t = "huge" -> IF AtLeastOne(b) THEN Huge(s) ELSE Approx(s)
          [] b.t = "huge" -> IF AtLeastOne(a) THEN Huge(s) ELSE Approx(s)
          [] OTHER -> FracMul(a, b)

\* 1/b for a number b # 0 of kind "num".
Reciprocal(b) ==
    IF ~SafeMul(b.w, b.d) THEN Approx(SignOf(b))
    ELSE LET nn == b.w * b.d + b.n
         IN  IF Abs(nn) > MaxExact THEN Approx(SignOf(b))
             ELSE IF nn < 0 THEN Num(-b.d, -nn) ELSE Num(b.d, nn)

TimesReciprocal(a, r, s) == IF r.t = "num" THEN FracMul(a, r) ELSE Approx(s)

NumDiv(a, b) ==
    LET s == SignOf(a) * SignOf(b)
    IN  CASE a.t = "nan" \/ b.t = "nan" -> NaN
          [] a.t = "inf" /\ b.t = "inf" -> NaN
          [] IsZero(a) /\ IsZero(b) -> NaN
          [] a.t = "inf" -> Infinity(s)
          [] b.t = "inf" -> Zero(s)
          [] IsZero(b) -> Infinity(s)
          [] IsZero(a) -> Zero(s)
          [] a.t = "max" /\ b.t = "max" -> Num(s, 1)
          [] a.t = "max" ->
                IF b.t # "num" THEN Approx(s)
                ELSE IF IsUnit(b) THEN MaxValue(s)
                ELSE IF AtLeastOne(b) THEN Huge(s) ELSE Infinity(s)
          [] b.t = "max" -> Approx(s)
          [] a.t = "approx" \/ b.t = "approx" \/ b.t = "huge" -> Approx(s)
          [] a.t = "huge" -> IF AtMostOne(b) THEN Huge(s) ELSE Approx(s)
          [] OTHER -> TimesReciprocal(a, Reciprocal(b), s)

IsInteger(v) == v.t = "num" /\ v.n = 0
IsOddInteger(v) == IsInteger(v) /\ v.w % 2 = 1

Square(x) == NumMul(x, x)

\* b ** e for a finite b # 0 and an integer e > 0, as a product of squares.
RECURSIVE PowPos(_, _)
PowPos(b, e) ==
    IF e = 1 THEN b
    ELSE IF e % 2 = 0 THEN Square(PowPos(b, e \div 2))
    ELSE NumMul(b, PowPos(b, e - 1))

\* Number::exponentiate, which is both ** and Math.pow.
NumPow(b, e) ==
    CASE e.t = "nan" -> NaN
      [] IsZero(e) -> Num(1, 1)
      [] b.t = "nan" -> NaN
      [] b.t = "inf" /\ b.w > 0 -> IF SignOf(e) > 0 THEN Infinity(1) ELSE Num(0, 1)
      [] b.t = "inf" /\ b.w < 0 ->
            IF SignOf(e) > 0
            THEN (IF IsOddInteger(e) THEN Infinity(-1) ELSE Infinity(1))
            ELSE (IF IsOddInteger(e) THEN NegZero ELSE Num(0, 1))
      [] b.t = "num" /\ IsZero(b) -> IF SignOf(e) > 0 THEN Num(0, 1) ELSE Infinity(1)
      [] b.t = "negzero" ->
            IF SignOf(e) > 0
            THEN (IF IsOddInteger(e) THEN NegZero ELSE Num(0, 1))
            ELSE (IF IsOddInteger(e) THEN Infinity(-1) ELSE Infinity(1))
      [] e.t = "max" ->
            IF b.t = "approx" THEN Approx(1)
            ELSE IF b.t = "num" /\ IsUnit(b) THEN Num(1, 1)
            ELSE IF (b.t \in {"huge", "max"} \/ AtLeastOne(b)) = (e.w > 0) THEN Infinity(1)
            ELSE Num(0, 1)
      [] e.t = "inf" ->
            IF b.t = "approx" THEN Approx(1)
            ELSE IF b.t = "num" /\ AtLeastOne(b) /\ AtMostOne(b) THEN NaN
            ELSE IF (b.t \in {"huge", "max"} \/ AtLeastOne(b)) = (e.w > 0) THEN Infinity(1)
            ELSE Num(0, 1)
      [] b.t \in {"approx", "huge"} \/ e.t \in {"approx", "huge"} -> Approx(1)
      [] b.t = "max" /\ ~IsInteger(e) -> IF b.w < 0 THEN NaN ELSE Approx(1)
      [] ~IsInteger(e) ->
            IF b.w < 0 THEN NaN
            ELSE IF b.w = 1 /\ b.n = 0 THEN Num(1, 1) ELSE Approx(1)
      [] OTHER ->
            IF e.w > 0 THEN PowPos(b, e.w)
            ELSE NumDiv(Num(1, 1), PowPos(b, -e.w))

\* Math.floor
Floor(v) == IF v.t = "num" THEN Val("num", v.w, 0, 1) ELSE v

\* a < b.  A comparison with not-a-number is false.
\* A value of kind "huge" or "approx" is compared by its sign alone, which is
\* exact for "huge" against a tracked number; the table compares tracked
\* numbers only.
NumLess(a, b) ==
    CASE a.t = "nan" \/ b.t = "nan" -> FALSE
      [] a.t = "inf" -> a.w < 0 /\ ~(b.t = "inf" /\ b.w < 0)
      [] b.t = "inf" -> b.w > 0
      [] a.t = "max" /\ b.t = "max" -> a.w < b.w
      [] a.t \in {"huge", "approx", "max"} -> a.w < 0
      [] b.t \in {"huge", "approx", "max"} -> b.w > 0
      [] IsZero(a) /\ IsZero(b) -> FALSE
      [] a.w # b.w -> a.w < b.w
      [] OTHER -> SafeMul(a.n, b.d) /\ SafeMul(b.n, a.d) /\ a.n * b.d < b.n * a.d

\* The binary operators of the host language on any two values.  An operand
\* that threw ends the evaluation; + with a RegExp object or a string
\* concatenates text.
Binary(op, a, b) ==
    IF a.t = "throw" \/ b.t = "throw" THEN Throw
    ELSE IF op = "+" /\ (a.t \in {"regexp", "string"} \/ b.t \in {"regexp", "string"})
         THEN StringValue
    ELSE LET x == ToNumber(a)
             y == ToNumber(b)
         IN  CASE op = "+" -> NumAdd(x, y)
               [] op = "-" -> NumAdd(x, Neg(y))
               [] op = "*" -> NumMul(x, y)
               [] op = "/" -> NumDiv(x, y)
               [] op = "**" -> NumPow(x, y)

Unary(op, a) ==
    IF a.t = "throw" THEN Throw
    ELSE IF op = "-" THEN Neg(ToNumber(a)) ELSE ToNumber(a)

-----------------------------------------------------------------------------
(* The source text of a Function body: tokens *)

Tok(k, v, e, nl) == [k |-> k, v |-> v, e |-> e, nl |-> nl]

\* First index >= p holding a line terminator, Len(s) + 1 when there is none.
RECURSIVE EndOfLine(_, _)
EndOfLine(s, p) ==
    IF p > Len(s) \/ s[p] \in LineTerminators THEN p ELSE EndOfLine(s, p + 1)

\* Index just after the first "*/" at or after p, 0 when there is none.
RECURSIVE EndOfBlock(_, _)
EndOfBlock(s, p) ==
    IF p >= Len(s) THEN 0
    ELSE IF s[p] = "*" /\ s[p + 1] = "/" THEN p + 2
    ELSE EndOfBlock(s, p + 1)

HasLineTerminator(s, a, b) == \E q \in a..b : s[q] \in LineTerminators

\* Skips white space, line terminators and comments from p on.  nl records
\* that a line terminator was passed; ok is FALSE for an unclosed comment.
RECURSIVE Skip(_, _, _)
Skip(s, p, nl) ==
    IF p > Len(s) THEN [p |-> p, nl |-> nl, ok |-> TRUE]
    ELSE IF s[p] \in WhiteSpace THEN Skip(s, p + 1, nl)
    ELSE IF s[p] \in LineTerminators THEN Skip(s, p + 1, TRUE)
    ELSE IF s[p] = "/" /\ p < Len(s) /\ s[p + 1] = "/"
         THEN Skip(s, EndOfLine(s, p + 2), nl)
    ELSE IF s[p] = "/" /\ p < Len(s) /\ s[p + 1] = "*"
         THEN LET e == EndOfBlock(s, p + 2)
              IN  IF e = 0 THEN [p |-> p, nl |-> nl, ok |-> FALSE]
                  ELSE Skip(s, e, nl \/ HasLineTerminator(s, p + 2, e - 1))
    ELSE [p |-> p, nl |-> nl, ok |-> TRUE]

\* Index just after the run of digits that starts at p.
RECURSIVE DigitRun(_, _)
DigitRun(s, p) ==
    IF p <= Len(s) /\ s[p] \in Digits THEN DigitRun(s, p + 1) ELSE p

\* The digits s[a..b-1] read in the given radix.
RECURSIVE DigitsValue(_, _, _, _)
DigitsValue(s, a, b, radix) ==
    IF b <= a THEN 0
    ELSE DigitsValue(s, a, b - 1, radix) * radix + DigitVal(s[b - 1])

RECURSIVE Pow10(_)
Pow10(k) == IF k = 0 THEN 1 ELSE 10 * Pow10(k - 1)

\* The most digits of a literal the model reads exactly.
MaxDigits == 9

\* A decimal literal with integer digits s[a..b-1] and fraction digits
\* s[c..d-1].
DecimalValue(s, a, b, c, d) ==
    IF (b - a) + (d - c) > MaxDigits THEN Approx(1)
    ELSE Num(DigitsValue(s, a, b, 10) * Pow10(d - c) + DigitsValue(s, c, d, 10),
             Pow10(d - c))

\* NumericLiteral at p, where s[p] is a digit or a "." followed by a digit.
\* A run of digits that starts with 0 and has only octal digits is a legacy
\* octal literal (the body of a Function is not strict code) and takes no
\* fraction; any other run is decimal.
LexNumber(s, p, nl) ==
    IF s[p] = "."
    THEN LET q == DigitRun(s, p + 1)
         IN  Tok("num", DecimalValue(s, p, p, p + 1, q), q, nl)
    ELSE LET i == DigitRun(s, p)
         IN  IF s[p] = "0" /\ i - p > 1 /\ \A q \in p..(i - 1) : s[q] \in OctalDigits
             THEN Tok("num",
                      IF i - p > MaxDigits THEN Approx(1)
                      ELSE Num(DigitsValue(s, p, i, 8), 1),
                      i, nl)
             ELSE IF i <= Len(s) /\ s[i] = "."
                  THEN LET j == DigitRun(s, i + 1)
                       IN  Tok("num", DecimalValue(s, p, i, i + 1, j), j, nl)
                  ELSE Tok("num", DecimalValue(s, p, i, i, i), i, nl)

\* The pattern of a regular expression literal over the characters the
\* whitelist lets through: a term is an atom (a digit, a blank, "-", "." or a
\* parenthesised group) with at most one quantifier "*" or "+".  Returns the
\* index where the alternative starting at p stops, 0 for a quantifier with
\* nothing to repeat or an unclosed group.
RECURSIVE PatternAlt(_, _)
PatternAlt(b, p) ==
    IF p > Len(b) \/ b[p] = ")" THEN p
    ELSE IF b[p] \in {"*", "+"} THEN 0
    ELSE LET a == IF b[p] = "("
                  THEN LET r == PatternAlt(b, p + 1)
                       IN  IF r = 0 \/ r > Len(b) THEN 0 ELSE r + 1
                  ELSE p + 1
         IN  IF a = 0 THEN 0
             ELSE IF a <= Len(b) /\ b[a] \in {"*", "+"} THEN PatternAlt(b, a + 1)
             ELSE PatternAlt(b, a)

PatternValid(b) == PatternAlt(b, 1) = Len(b) + 1

\* First index >= p holding "/", 0 when a line terminator or the end of the
\* text comes first.
RECURSIVE EndOfRegExp(_, _)
EndOfRegExp(s, p) ==
    IF p > Len(s) \/ s[p] \in LineTerminators THEN 0
    ELSE IF s[p] = "/" THEN p
    ELSE EndOfRegExp(s, p + 1)

\* RegularExpressionLiteral at p, where s[p] = "/" stands where an operand
\* may start.  Digits right after the closing "/" are read as flags, and no
\* digit is a flag.
LexRegExp(s, p, nl) ==
    LET q == EndOfRegExp(s, p + 1)
    IN  IF q = 0 THEN Tok("bad", NaN, p, nl)
        ELSE IF q < Len(s) /\ s[q + 1] \in Digits THEN Tok("bad", NaN, p, nl)
        ELSE IF ~PatternValid(SubSeq(s, p + 1, q - 1)) THEN Tok("bad", NaN, p, nl)
        ELSE Tok("regex", RegExpObject, q + 1, nl)

At(s, p, c) == p <= Len(s) /\ s[p] = c

\* The token at q, the index Skip stopped at.  re says whether an operand may
\* start here: there "/" opens a regular expression literal, elsewhere it
\* divides.
TokAt(s, q, nl, re) ==
    IF q > Len(s) THEN Tok("eof", NaN, q, nl)
    ELSE IF s[q] \in Digits \/ (s[q] = "." /\ q < Len(s) /\ s[q + 1] \in Digits)
         THEN LexNumber(s, q, nl)
    ELSE IF s[q] = "."
         THEN IF At(s, q + 1, ".") /\ At(s, q + 2, ".")
              THEN Tok("...", NaN, q + 3, nl)
              ELSE Tok(".", NaN, q + 1, nl)
    ELSE IF s[q] \in {"+", "-", "*"}
         THEN IF At(s, q + 1, s[q])
              THEN Tok(IF s[q] = "+" THEN "++" ELSE IF s[q] = "-" THEN "--" ELSE "**",
                       NaN, q + 2, nl)
              ELSE Tok(s[q], NaN, q + 1, nl)
    ELSE IF s[q] = "/"
         THEN IF re THEN LexRegExp(s, q, nl) ELSE Tok("/", NaN, q + 1, nl)
    ELSE IF s[q] \in {"(", ")"} THEN Tok(s[q], NaN, q + 1, nl)
    ELSE Tok("bad", NaN, q, nl)

AfterSkip(s, sk, re) ==
    IF sk.ok THEN TokAt(s, sk.p, sk.nl, re) ELSE Tok("bad", NaN, sk.p, sk.nl)

\* The next token at or after p.
NextTok(s, p, re) == AfterSkip(s, Skip(s, p, FALSE), re)

-----------------------------------------------------------------------------
(* The source text of a Function body: expressions and statements *)

\* What parsing and evaluating an expression gives: ok is FALSE for a syntax
\* error; v is its value (Throw when evaluating it raises); p is the index
\* after it; call says it is a call, the one form that may stand as the
\* operand of ++ and -- without a syntax error; un says it starts with a
\* unary operator, which may not be the base of **.
Parsed(v, p, call, un) == [ok |-> TRUE, v |-> v, p |-> p, call |-> call, un |-> un]
SyntaxError == [ok |-> FALSE, v |-> Throw, p |-> 0, call |-> FALSE, un |-> FALSE]

\* The grammar of the host language over these tokens, one goal for each
\* production.  x is the index where the production starts; for the goals
\* that continue an expression (AdditiveLoop, MultiplicativeLoop, CallLoop)
\* it is the expression parsed so far.  Each production is written as an
\* operator of the token t it looks at.
\*
\* Calls: no value an expression over these characters has is callable, so a
\* call raises a TypeError when it is evaluated.  Arguments: none, or one
\* expression (there is no comma), which may be spread.
\*
\* Statements, Rest: the statements after the return statement are never
\* run, but a syntax error in them stops the Function from being
\* constructed.  A statement ends at the end of the text, or before a token
\* on a later line that cannot continue it.
\*
\* Body: the text after "return ".  A line terminator right after return
\* ends the return statement, which then returns undefined.
RECURSIVE Parse(_, _, _)

\* l op r, for the operands parsed as l and r.
Combine(op, l, r) ==
    IF r.ok THEN Parsed(Binary(op, l.v, r.v), r.p, FALSE, FALSE) ELSE r

AdditiveLoop(s, l, t) ==
    IF t.k \in {"+", "-"}
    THEN Parse("AdditiveLoop", s, Combine(t.k, l, Parse("Multiplicative", s, t.e)))
    ELSE l

MultiplicativeLoop(s, l, t) ==
    IF t.k \in {"*", "/"}
    THEN Parse("MultiplicativeLoop", s, Combine(t.k, l, Parse("Exponentiation", s, t.e)))
    ELSE l

\* UpdateExpression ** ExponentiationExpression, right to left.
Exponentiation(s, b, t) ==
    IF t.k = "**"
    THEN IF b.un THEN SyntaxError
         ELSE Combine("**", b, Parse("Exponentiation", s, t.e))
    ELSE b

PrefixMinusPlus(op, o) ==
    IF o.ok THEN Parsed(Unary(op, o.v), o.p, FALSE, TRUE) ELSE o

\* ++ and -- take a call and nothing else; evaluating the call raises.
PrefixUpdate(o) ==
    IF o.ok /\ o.call THEN Parsed(Throw, o.p, FALSE, FALSE) ELSE SyntaxError

UnaryExpression(s, x, t) ==
    IF t.k \in {"+", "-"} THEN PrefixMinusPlus(t.k, Parse("Unary", s, t.e))
    ELSE IF t.k \in {"++", "--"} THEN PrefixUpdate(Parse("Unary", s, t.e))
    ELSE Parse("Update", s, x)

\* A postfix ++ or -- stands on the line of its operand.
PostfixUpdate(l, t) ==
    IF t.k \in {"++", "--"} /\ ~t.nl
    THEN IF l.call THEN Parsed(Throw, t.e, FALSE, FALSE) ELSE SyntaxError
    ELSE l

Called(a) == IF a.ok THEN Parsed(Throw, a.p, TRUE, FALSE) ELSE a

CallLoop(s, m, t) ==
    IF t.k = "(" THEN Parse("CallLoop", s, Called(Parse("Arguments", s, t.e))) ELSE m

Closing(e, c, call) ==
    IF c.k = ")" THEN Parsed(e.v, c.e, call, FALSE) ELSE SyntaxError

Arguments(s, x, t) ==
    IF t.k = ")" THEN Parsed(Undefined, t.e, FALSE, FALSE)
    ELSE Parse("ClosingArguments", s, Parse("Additive", s, IF t.k = "..." THEN t.e ELSE x))

Primary(s, t) ==
    IF t.k \in {"num", "regex"} THEN Parsed(t.v, t.e, FALSE, FALSE)
    ELSE IF t.k = "(" THEN Parse("ClosingGroup", s, Parse("Additive", s, t.e))
    ELSE SyntaxError

Rest(s, x, t) ==
    IF t.k = "eof" THEN Parsed(Undefined, t.e, FALSE, FALSE)
    ELSE IF t.k = "bad" \/ ~t.nl THEN SyntaxError
    ELSE Parse("Statements", s, x)

\* The value of the return statement e, once the rest r of the text parsed.
Returned(e, r) == IF r.ok THEN e ELSE r

Body(s, t) ==
    IF t.k = "eof" THEN Parsed(Undefined, t.e, FALSE, FALSE)
    ELSE IF t.nl
         THEN Returned(Parsed(Undefined, 1, FALSE, FALSE), Parse("Statements", s, 1))
    ELSE Parse("ReturnRest", s, Parse("Additive", s, 1))

Parse(goal, s, x) ==
    CASE goal = "Additive" ->
            Parse("AdditiveLoop", s, Parse("Multiplicative", s, x))
      [] goal = "AdditiveLoop" ->
            IF x.ok THEN AdditiveLoop(s, x, NextTok(s, x.p, FALSE)) ELSE x
      [] goal = "Multiplicative" ->
            Parse("MultiplicativeLoop", s, Parse("Exponentiation", s, x))
      [] goal = "MultiplicativeLoop" ->
            IF x.ok THEN MultiplicativeLoop(s, x, NextTok(s, x.p, FALSE)) ELSE x
      [] goal = "Exponentiation" ->
            Parse("ExponentiationRest", s, Parse("Unary", s, x))
      [] goal = "ExponentiationRest" ->
            IF x.ok THEN Exponentiation(s, x, NextTok(s, x.p, FALSE)) ELSE x
      [] goal = "Unary" ->
            UnaryExpression(s, x, NextTok(s, x, TRUE))
      [] goal = "Update" ->
            Parse("UpdateRest", s, Parse("LeftHandSide", s, x))
      [] goal = "UpdateRest" ->
            IF x.ok THEN PostfixUpdate(x, NextTok(s, x.p, FALSE)) ELSE x
      [] goal = "LeftHandSide" ->
            Parse("CallLoop", s, Parse("Primary", s, x))
      [] goal = "CallLoop" ->
            IF x.ok THEN CallLoop(s, x, NextTok(s, x.p, FALSE)) ELSE x
      [] goal = "Arguments" ->
            Arguments(s, x, NextTok(s, x, TRUE))
      [] goal = "ClosingArguments" ->
            IF x.ok THEN Closing(Parsed(Undefined, x.p, FALSE, FALSE),
                                 NextTok(s, x.p, FALSE), FALSE)
            ELSE x
      [] goal = "Primary" ->
            Primary(s, NextTok(s, x, TRUE))
      [] goal = "ClosingGroup" ->
            IF x.ok THEN Closing(x, NextTok(s, x.p, FALSE), x.call) ELSE x
      [] goal = "Statements" ->
            Parse("StatementsRest", s, Parse("Additive", s, x))
      [] goal = "StatementsRest" ->
            IF x.ok THEN Rest(s, x.p, NextTok(s, x.p, FALSE)) ELSE x
      [] goal = "ReturnRest" ->
            IF x.ok THEN Returned(x, Rest(s, x.p, NextTok(s, x.p, FALSE))) ELSE x
      [] goal = "Body" ->
            Body(s, NextTok(s, 1, TRUE))

\* The completion of the Function a parse of its body stands for.
Completion(b) == IF b.ok THEN b.v ELSE Throw

\* new Function(`return ${s}`)(): the value returned, or Throw for the
\* SyntaxError of the constructor and for an exception of the call.
RunFunction(s) == Completion(Parse("Body", s, 1))

-----------------------------------------------------------------------------
(* evalFormula *)

\* simStats computed once, before the loop, for its first level.
simStatsOfFirstLevel(i) == [STR |-> 15, VIT |-> 15, INT |-> 15, WIS |-> 15]

\* simStats of level i: every stat is 10 + i * 5.
simStats(i) ==
    [STR |-> 10 + (i * 5), VIT |-> 10 + (i * 5), INT |-> 10 + (i * 5), WIS |-> 10 + (i * 5)]

\* Object.keys(simStats), each key as its characters.
StatKeys == << <<"S", "T", "R">>, <<"V", "I", "T">>, <<"I", "N", "T">>, <<"W", "I", "S">> >>

StatValue(i, k) ==
    CASE k = 1 -> simStats(i).STR [] k = 2 -> simStats(i).VIT
      [] k = 3 -> simStats(i).INT [] k = 4 -> simStats(i).WIS

\* s.replace(new RegExp(k, 'g'), v): every occurrence of k, left to right,
\* wherever it stands in s.
RECURSIVE ReplaceAll(_, _, _)
ReplaceAll(s, k, v) ==
    IF Len(s) < Len(k) THEN s
    ELSE IF SubSeq(s, 1, Len(k)) = k
         THEN v \o ReplaceAll(SubSeq(s, Len(k) + 1, Len(s)), k, v)
         ELSE <<Head(s)>> \o ReplaceAll(Tail(s), k, v)

\* The forEach over the keys of simStats.
RECURSIVE SubstituteFrom(_, _, _)
SubstituteFrom(s, i, k) ==
    IF k > Len(StatKeys) THEN s
    ELSE SubstituteFrom(ReplaceAll(s, StatKeys[k], NumberToString(StatValue(i, k))), i, k + 1)

Substitute(s, i) == SubstituteFrom(s, i, 1)

\* /^[\d\s\+\-\*\/\(\)\.]+$/
MathChars == Digits \cup WhiteSpace \cup LineTerminators \cup {"+", "-", "*", "/", "(", ")", "."}

\* evalFormula without the test of line 29: any text that is not empty goes on.
NoWhitelist(s) == Len(s) >= 1

OnlyMathChars(s) == Len(s) >= 1 /\ \A q \in 1..Len(s) : s[q] \in MathChars

\* evalFormula without its catch: the exception leaves it.
NoCatch(r) == r

\* try { ... } catch { return 'Err'; }
TryCatch(r) == IF r.t = "throw" THEN Err ELSE r

\* The test of the whitelist on the substituted text s, and what follows.
Guarded(s) ==
    IF ~OnlyMathChars(s) THEN [ret |-> Err, fn |-> FALSE]
    ELSE [ret |-> TryCatch(RunFunction(s)), fn |-> TRUE]

\* evalFormula(f) inside the iteration for level i.  ret is what it returns
\* (Throw when an exception leaves it), fn whether it constructed a Function
\* from the substituted text and ran it.
evalFormula(fm, i) == Guarded(Substitute(fm, i))

-----------------------------------------------------------------------------
(* The formulas the model evaluates *)

ExHp == <<"V", "I", "T", " ", "*", " ", "1", "0", " ", "+", " ", "5", "0">>
ExMp == <<"I", "N", "T", " ", "*", " ", "1", "0", " ", "+", " ", "W", "I", "S", " ", "*", " ", "5">>
ExScale == <<"S", "T", "R", " ", "*", " ", "1", "0", " ", "+", " ", "5", "0">>
ExDrop == <<"S", "T", "R", ";", " ", "D", "R", "O", "P", " ", "T", "A", "B", "L", "E">>
ExDivZero == <<"1", "0", " ", "/", " ", "0">>
ExBackToBack == <<"S", "T", "R", "V", "I", "T">>
ExDigitStat == <<"1", "S", "T", "R">>
ExLeadingMinus == <<"-", "5", " ", "+", " ", "S", "T", "R">>
ExMinusMinus == <<"3", " ", "-", " ", "-", "2">>
ExTimesMinus == <<"2", " ", "*", " ", "-", "3">>
ExMinusGroup == <<"-", "(", "S", "T", "R", " ", "+", " ", "1", ")">>
ExDoubleMinus == <<"-", "-", "5">>
ExLeadingZero == <<"0", "1", "0", " ", "+", " ", "1">>
ExPower == <<"2", " ", "*", "*", " ", "3">>
ExSlashSlash == <<"1", " ", "/", "/", " ", "2">>
ExSlashGroup == <<"/", "1", "/">>
ExDotDot == <<"1", ".", ".", "2">>
ExUnknownStat == <<"A", "G", "I", " ", "*", " ", "2">>

Examples ==
    {ExHp, ExMp, ExScale, ExDrop, ExDivZero, ExBackToBack, ExDigitStat, ExLeadingMinus, ExMinusMinus, ExTimesMinus, ExMinusGroup, ExDoubleMinus, ExLeadingZero, ExPower, ExSlashSlash, ExSlashGroup, ExDotDot, ExUnknownStat}

\* What an author types, one piece at a time: digits, operators, parentheses,
\* a decimal point, a blank, a line break, a stat name, a character outside
\* the whitelist.
Pieces ==
    { <<"0">>, <<"1">>, <<"2">>, <<"+">>, <<"-">>, <<"*">>, <<"/">>, <<"(">>, <<")">>,
      <<".">>, <<" ">>, <<"\n">>, <<";">>, <<"S", "T", "R">>, <<"V", "I", "T">> }

\* The most pieces of an enumerated formula.
MaxPieces == 3

RECURSIVE Flatten(_)
Flatten(ps) == IF ps = <<>> THEN <<>> ELSE Head(ps) \o Flatten(Tail(ps))

Typed == {Flatten(ps) : ps \in UNION {[1..k -> Pieces] : k \in 0..MaxPieces}}

Inputs == Typed \cup Examples

\* The most levels evalFormula is probed at.
MaxEvalLevel == 2
EvalLevels == 1..MaxEvalLevel

NoResult == Val("none", 0, 0, 1)

-----------------------------------------------------------------------------
(* The Calculator: the table behind useMemo *)

\* for (let i = 1; i <= 20; i++)
LevelCount == 20

\* The quadratic curve with the floor taken before the division by 10.
RawNeededFloorFirst(curve, base, factor, i) ==
    IF curve = "linear"
    THEN Floor(NumMul(NumMul(base, Num(i, 1)), factor))
    ELSE IF curve = "quadratic"
    THEN NumDiv(Floor(NumMul(NumMul(base, NumPow(Num(i, 1), Num(2, 1))), factor)),
                Num(10, 1))
    ELSE Floor(NumMul(base, NumPow(factor, Num(i, 1))))

\* The curve with a test for "exponential" and no else: needed stays 0 for
\* any other kind.
RawNeededKnownKinds(curve, base, factor, i) ==
    IF curve = "linear"
    THEN Floor(NumMul(NumMul(base, Num(i, 1)), factor))
    ELSE IF curve = "quadratic"
    THEN Floor(NumDiv(NumMul(NumMul(base, NumPow(Num(i, 1), Num(2, 1))), factor),
                      Num(10, 1)))
    ELSE IF curve = "exponential"
    THEN Floor(NumMul(base, NumPow(factor, Num(i, 1))))
    ELSE Num(0, 1)

\* The experience of level i before the clamp.
RawNeeded(curve, base, factor, i) ==
    IF curve = "linear"
    THEN Floor(NumMul(NumMul(base, Num(i, 1)), factor))
    ELSE IF curve = "quadratic"
    THEN Floor(NumDiv(NumMul(NumMul(base, NumPow(Num(i, 1), Num(2, 1))), factor),
                      Num(10, 1)))
    ELSE Floor(NumMul(base, NumPow(factor, Num(i, 1))))

\* The loop body without line 17.
NoClamp(raw, i) == raw

\* The clamp with a flat replacement: needed = 100.
ClampFlat(raw, i) == IF NumLess(raw, Num(100, 1)) THEN Num(100, 1) ELSE raw

\* The clamp with a level-scaled test: if (needed < 100 * i).
ClampToLevelFloor(raw, i) == IF NumLess(raw, Num(100 * i, 1)) THEN Num(100 * i, 1) ELSE raw

\* if (needed < 100) needed = 100 * i;
Clamp(raw, i) == IF NumLess(raw, Num(100, 1)) THEN Num(100 * i, 1) ELSE raw

\* The loop with its test one level short.
LoopRunsShort(i) == i < LevelCount

\* The row pushed before total += needed has run.
RowBeforeSum(i, total, needed, hp, mp) ==
    [level |-> i, xp |-> needed, total |-> total, hp |-> hp, mp |-> mp]

\* The row of a loop that does not accumulate: total is the level's own xp.
RowNoSum(i, total, needed, hp, mp) ==
    [level |-> i, xp |-> needed, total |-> needed, hp |-> hp, mp |-> mp]

\* The first level of the loop and the test that keeps it running.
FirstLevel == 1
LoopRuns(i) == i <= LevelCount

\* total += needed, and the row pushed for level i.
Row(i, total, needed, hp, mp) ==
    [level |-> i, xp |-> needed, total |-> NumAdd(total, needed), hp |-> hp, mp |-> mp]

\* The body of the loop for level i, entered with the running total.
Iteration(i, total, rules) ==
    Row(i, total, Clamp(RawNeeded(rules.xpCurve, rules.xpBase, rules.xpFactor, i), i),
        evalFormula(rules.formulas.hp, i).ret, evalFormula(rules.formulas.mp, i).ret)

\* The iterations of the loop from level i on.  An exception that leaves
\* evalFormula leaves the loop and the callback as well, and the component
\* has no table to render.
RECURSIVE Loop(_, _, _, _)

\* A push that leaves out the row of a failed cell.
PushSkipsFailed(rows, row, rules) ==
    IF row.hp = Err \/ row.mp = Err
    THEN Loop(row.level + 1, row.total, rows, rules)
    ELSE Loop(row.level + 1, row.total, Append(rows, row), rules)

\* rows.push(...) and i++
Push(rows, row, rules) ==
    IF row.hp.t = "throw" \/ row.mp.t = "throw" THEN <<>>
    ELSE Loop(row.level + 1, row.total, Append(rows, row), rules)

Loop(i, total, rows, rules) ==
    IF ~LoopRuns(i) THEN rows ELSE Push(rows, Iteration(i, total, rules), rules)

\* The callback of useMemo.
BuildTable(rules) == Loop(FirstLevel, Num(0, 1), <<>>, rules)

\* useMemo with an empty dependency list: the table of the first render
\* stays.
NeverRebuilt(rules) == data

\* useMemo whose callback keeps its total outside: a table built after
\* another starts from the last total of that one.
UseMemoKeepsTotal(rules) ==
    IF <<rules.xpBase, rules.xpFactor, rules.xpCurve, rules.formulas>>
         = <<systemRules.xpBase, systemRules.xpFactor, systemRules.xpCurve, systemRules.formulas>>
    THEN data
    ELSE Loop(FirstLevel, IF data = <<>> THEN Num(0, 1) ELSE data[Len(data)].total,
              <<>>, rules)

\* useMemo with formulas left out of its dependency list.
UseMemoWithoutFormulas(rules) ==
    IF <<rules.xpBase, rules.xpFactor, rules.xpCurve>>
         = <<systemRules.xpBase, systemRules.xpFactor, systemRules.xpCurve>>
    THEN data
    ELSE BuildTable(rules)

\* useMemo(..., [xpBase, xpFactor, xpCurve, formulas]): the table is built
\* again when a dependency differs from the one of the last render.
UseMemo(rules) ==
    IF <<rules.xpBase, rules.xpFactor, rules.xpCurve, rules.formulas>>
         = <<systemRules.xpBase, systemRules.xpFactor, systemRules.xpCurve, systemRules.formulas>>
    THEN data
    ELSE BuildTable(rules)

\* DEFAULT_PROJECT.systemRules
DefaultRules ==
    [xpCurve |-> "quadratic", xpBase |-> Num(100, 1), xpFactor |-> Num(3, 2),
     formulas |-> [hp |-> ExHp, mp |-> ExMp]]

\* What the controls of the Calculator can hand to updateProject.
CurveOptions == {"linear", "quadratic", "exponential"}
\* parseInt(e.target.value) of the Base XP field; NaN for an empty field.
BaseInputs == {NaN, Num(10, 1)}
\* parseFloat(e.target.value) of the Growth Factor field.
FactorInputs == {Num(-1, 1), Num(2, 1)}
\* e.target.value of the two formula fields.
FormulaInputs == {ExDrop, ExDoubleMinus}

\* updateProject({ systemRules: ... }), then the render it causes.
updateProject(rules) ==
    /\ systemRules' = rules
    /\ data' = UseMemo(rules)

SetCurve(c) == updateProject([systemRules EXCEPT !.xpCurve = c])

SetBase(b) == updateProject([systemRules EXCEPT !.xpBase = b])

SetFactor(x) == updateProject([systemRules EXCEPT !.xpFactor = x])

SetHp(e) == updateProject([systemRules EXCEPT !.formulas.hp = e])

SetMp(e) == updateProject([systemRules EXCEPT !.formulas.mp = e])

CalcInit ==
    /\ systemRules = DefaultRules
    /\ data = BuildTable(DefaultRules)

\* No curve under study: the curve of the project, nothing computed.
CurveIdle ==
    /\ cfg = [kind |-> DefaultRules.xpCurve, base |-> DefaultRules.xpBase,
              factor |-> DefaultRules.xpFactor]
    /\ xpRaw = NoResult
    /\ xpNeeded = NoResult

\* No callback of useMemo is running.
LoopIdle ==
    /\ loopTotal = Num(0, 1)
    /\ loopRows = <<>>

\* DEFAULT_PROJECT, as far as the Calculator reads it.
DefaultProject == [systemRules |-> DefaultRules]

\* localStorage.getItem returns null for an item that was never set.
NoItem == [item |-> "null"]

\* useState<string[]>([]) : no notification shown, no timer pending.
NoteIdle ==
    /\ notifications = <<>>
    /\ timers = <<>>
    /\ calls = 0

\* useState<Project>(DEFAULT_PROJECT), with nothing stored and no effect
\* waiting.
StoreIdle ==
    /\ project = DefaultProject
    /\ storage = NoItem
    /\ updates = <<>>
    /\ effects = <<>>
    /\ strict = FALSE
    /\ atMount = NoItem
    /\ edits = 0

ProviderIdle == NoteIdle /\ StoreIdle

Init ==
    /\ CalcInit
    /\ CurveIdle
    /\ LoopIdle
    /\ ProviderIdle
    /\ f = <<>>
    /\ lvl = 1
    /\ ret = NoResult
    /\ fnMade = FALSE
    /\ pc = "idle"

Next ==
    \/ \E c \in CurveOptions : SetCurve(c) /\ UNCHANGED <<evalVars, curveVars, loopVars, providerVars>>
    \/ \E b \in BaseInputs : SetBase(b) /\ UNCHANGED <<evalVars, curveVars, loopVars, providerVars>>
    \/ \E x \in FactorInputs : SetFactor(x) /\ UNCHANGED <<evalVars, curveVars, loopVars, providerVars>>
    \/ \E e \in FormulaInputs : SetHp(e) /\ UNCHANGED <<evalVars, curveVars, loopVars, providerVars>>
    \/ \E e \in FormulaInputs : SetMp(e) /\ UNCHANGED <<evalVars, curveVars, loopVars, providerVars>>

Spec == Init /\ [][Next]_vars

-----------------------------------------------------------------------------
(* evalFormula on its own: one call for each formula and level *)

EvalInit ==
    /\ CalcInit
    /\ CurveIdle
    /\ LoopIdle
    /\ ProviderIdle
    /\ f \in Inputs
    /\ lvl \in EvalLevels
    /\ ret = NoResult
    /\ fnMade = FALSE
    /\ pc = "call"

CallEvalFormula ==
    /\ pc = "call"
    /\ LET r == evalFormula(f, lvl)
       IN  /\ ret' = r.ret
           /\ fnMade' = r.fn
    /\ pc' = "done"
    /\ UNCHANGED <<f, lvl>>
    /\ UNCHANGED <<calcVars, curveVars, loopVars, providerVars>>

EvalNext == CallEvalFormula

EvalSpec == EvalInit /\ [][EvalNext]_vars

-----------------------------------------------------------------------------
(* The experience of one level on its own: one computation for each curve,
   base, factor and level *)

\* The curve kinds of the select, and one no option of the select gives (a
\* project read from storage may hold any text).
CurveKinds == CurveOptions \cup {"other"}
\* Values of xpBase: NaN for an empty field, else an integer.
CurveBases == {NaN, Num(-100, 1), Num(0, 1), Num(1, 1), Num(7, 1), Num(10, 1), Num(100, 1)}
\* Values of xpFactor: NaN for an empty field, else a decimal.
CurveFactors ==
    {NaN, Num(-3, 2), Num(0, 1), Num(1, 2), Num(1, 1), Num(3, 2), Num(2, 1), Num(5, 2)}

CurveInit ==
    /\ CalcInit
    /\ LoopIdle
    /\ ProviderIdle
    /\ cfg \in [kind : CurveKinds, base : CurveBases, factor : CurveFactors]
    /\ lvl \in 1..LevelCount
    /\ xpRaw = NoResult
    /\ xpNeeded = NoResult
    /\ f = <<>>
    /\ ret = NoResult
    /\ fnMade = FALSE
    /\ pc = "curve"

\* Lines 12 to 17 of the loop body for level lvl.
ComputeNeeded ==
    /\ pc = "curve"
    /\ xpRaw' = RawNeeded(cfg.kind, cfg.base, cfg.factor, lvl)
    /\ xpNeeded' = Clamp(RawNeeded(cfg.kind, cfg.base, cfg.factor, lvl), lvl)
    /\ pc' = "clamped"
    /\ UNCHANGED <<cfg, lvl, f, ret, fnMade>>
    /\ UNCHANGED <<calcVars, loopVars, providerVars>>

CurveNext == ComputeNeeded

CurveSpec == CurveInit /\ [][CurveNext]_vars

-----------------------------------------------------------------------------
(* The table of a project read from storage: the load effect hands
   JSON.parse(savedProj) to setProjectState, and the render that follows
   builds the table of its systemRules *)

\* systemRules of saved projects.  JSON.parse checks no shape: the curve may
\* be any text and formulas may hold slots besides hp and mp.
SavedBases == {Num(-100, 1), Num(7, 1), Num(100, 1)}
SavedFactors == {Num(-3, 2), Num(3, 2), Num(5, 2), MaxValue(1)}
SavedFormulas ==
    { [hp |-> ExHp, mp |-> ExMp],
      [hp |-> ExHp, mp |-> ExMp, atk |-> ExScale],
      [hp |-> ExDivZero, mp |-> ExDrop],
      [hp |-> ExUnknownStat, mp |-> ExLeadingMinus, atk |-> ExScale, def |-> ExMp] }
SavedRules ==
    [xpCurve : CurveKinds, xpBase : SavedBases, xpFactor : SavedFactors,
     formulas : SavedFormulas]

\* The state after the first render, before the effects have run.
TableInit ==
    /\ CalcInit
    /\ CurveIdle
    /\ LoopIdle
    /\ ProviderIdle
    /\ f = <<>>
    /\ lvl = 1
    /\ ret = NoResult
    /\ fnMade = FALSE
    /\ pc = "mounted"

\* setProjectState(JSON.parse(savedProj)), then the render it causes.
LoadSaved(saved) ==
    /\ pc = "mounted"
    /\ systemRules' = saved
    /\ data' = UseMemo(saved)
    /\ pc' = "loaded"
    /\ UNCHANGED <<f, lvl, ret, fnMade>>
    /\ UNCHANGED <<curveVars, loopVars, providerVars>>

TableNext == \E saved \in SavedRules : LoadSaved(saved)

TableSpec == TableInit /\ [][TableNext]_vars

-----------------------------------------------------------------------------
(* The callback of useMemo, one iteration of its loop at a time *)

\* The rules a render can hand to the callback.
LoopRules ==
    {DefaultRules, [DefaultRules EXCEPT !.xpBase = NaN]}
      \cup [xpCurve : CurveKinds, xpBase : {Num(7, 1)}, xpFactor : {Num(-3, 2), Num(5, 2)},
            formulas : {[hp |-> ExDivZero, mp |-> ExDrop],
                        [hp |-> ExHp, mp |-> ExMp, atk |-> ExScale]}]

\* What lines 12 to 17 and the two calls of evalFormula give in iteration i
\* for the rules: functions of the rules and i alone, computed once for the
\* rules of LoopRules.
IterationParts ==
    { [rules |-> r, i |-> i,
       needed |-> Clamp(RawNeeded(r.xpCurve, r.xpBase, r.xpFactor, i), i),
       hp |-> evalFormula(r.formulas.hp, i).ret,
       mp |-> evalFormula(r.formulas.mp, i).ret] :
      r \in LoopRules, i \in FirstLevel..LevelCount }
PartsOf(rules, i) == CHOOSE p \in IterationParts : p.rules = rules /\ p.i = i
RowOfParts(total, p) == Row(p.i, total, p.needed, p.hp, p.mp)

\* The callback is entered: const rows = []; let total = 0; let i = 1.
LoopInit ==
    /\ systemRules \in LoopRules
    /\ data = <<>>
    /\ CurveIdle
    /\ loopTotal = Num(0, 1)
    /\ loopRows = <<>>
    /\ lvl = FirstLevel
    /\ f = <<>>
    /\ ret = NoResult
    /\ fnMade = FALSE
    /\ pc = "loop"
    /\ ProviderIdle

\* A loop whose i++ is missing.
PushedWithoutIncrement(row) ==
    IF row.hp.t = "throw" \/ row.mp.t = "throw"
    THEN /\ pc' = "thrown"
         /\ UNCHANGED <<lvl, loopTotal, loopRows>>
    ELSE /\ loopRows' = Append(loopRows, row)
         /\ loopTotal' = row.total
         /\ lvl' = row.level
         /\ pc' = "loop"
\* The row of iteration lvl is pushed and i++ runs; an exception that leaves
\* evalFormula leaves the callback.
Pushed(row) ==
    IF row.hp.t = "throw" \/ row.mp.t = "throw"
    THEN /\ pc' = "thrown"
         /\ UNCHANGED <<lvl, loopTotal, loopRows>>
    ELSE /\ loopRows' = Append(loopRows, row)
         /\ loopTotal' = row.total
         /\ lvl' = row.level + 1
         /\ pc' = "loop"

\* One pass through the body of the loop.
LoopIteration ==
    /\ pc = "loop"
    /\ LoopRuns(lvl)
    /\ Pushed(RowOfParts(loopTotal, PartsOf(systemRules, lvl)))
    /\ UNCHANGED <<systemRules, data, f, ret, fnMade>>
    /\ UNCHANGED <<curveVars, providerVars>>

\* return rows
LoopReturn ==
    /\ pc = "loop"
    /\ ~LoopRuns(lvl)
    /\ data' = loopRows
    /\ pc' = "returned"
    /\ UNCHANGED <<systemRules, f, lvl, ret, fnMade>>
    /\ UNCHANGED <<curveVars, loopVars, providerVars>>

LoopNext == LoopIteration \/ LoopReturn

\* The callback is synchronous code: once entered it runs on.
LoopSpec == LoopInit /\ [][LoopNext]_vars /\ WF_vars(LoopNext)

------------------------------------------------------------------------------
(* The notifications of the ProjectProvider *)

\* How many calls of addNotification a behaviour makes.
MaxCalls == 4

\* Messages the components hand to addNotification.
Messages == {"Name generated", "Outline Generated", "Chapter Written"}

\* [...prev, msg]
Spread(prev, msg) == Append(prev, msg)

SliceButLast(prev) == IF prev = <<>> THEN <<>> ELSE SubSeq(prev, 1, Len(prev) - 1)
\* prev.slice(1)
SliceFromOne(prev) == IF prev = <<>> THEN <<>> ELSE Tail(prev)

NoteInit ==
    /\ CalcInit
    /\ CurveIdle
    /\ LoopIdle
    /\ f = <<>>
    /\ lvl = 1
    /\ ret = NoResult
    /\ fnMade = FALSE
    /\ pc = "provider"
    /\ ProviderIdle

\* addNotification(msg) : the message is appended and a timer of 4000 ms is
\* started.  All timers have the same delay, so they expire in the order in
\* which they were started.
addNotification(msg) ==
    /\ pc = "provider"
    /\ calls < MaxCalls
    /\ calls' = calls + 1
    /\ notifications' = Spread(notifications, [msg |-> msg, call |-> calls + 1])
    /\ timers' = Append(timers, calls + 1)
    /\ UNCHANGED <<calcVars, evalVars, curveVars, loopVars, storeVars>>

\* The earliest pending timer expires and its callback runs.
TimerFires ==
    /\ pc = "provider"
    /\ timers # <<>>
    /\ timers' = Tail(timers)
    /\ notifications' = SliceFromOne(notifications)
    /\ UNCHANGED calls
    /\ UNCHANGED <<calcVars, evalVars, curveVars, loopVars, storeVars>>

NoteNext ==
    \/ \E msg \in Messages : addNotification(msg)
    \/ TimerFires

\* A timer that was started does expire.
NoteSpec == NoteInit /\ [][NoteNext]_vars /\ WF_vars(TimerFires)

------------------------------------------------------------------------------
(* The project of the ProjectProvider and its copy in localStorage *)

\* How many edits a behaviour makes.
MaxEdits == 2

\* What JSON.stringify writes for a value that is not a number, a string, an
\* array or an object.
Null == Val("null", 0, 0, 1)

\* JSON.stringify of a number: NaN and the infinities are written as null,
\* -0 as 0, every other double as digits that parse back to it.
JsonNumber(v) ==
    CASE v.t \in {"nan", "inf"} -> Null
      [] v.t = "negzero" -> Num(0, 1)
      [] OTHER -> v

\* JSON.stringify(project) : the text, held as the document it denotes.
stringify(p) ==
    [item |-> "json",
     systemRules |-> [p.systemRules EXCEPT !.xpBase = JsonNumber(@),
                                           !.xpFactor = JsonNumber(@)]]

\* JSON.parse(savedProj) of a text that JSON.stringify wrote.
parse(text) == [systemRules |-> text.systemRules]

\* An item that is not JSON; JSON.parse throws on it.
NotJson == [item |-> "text"]

\* Projects an earlier session saved.
SavedProjects ==
    {[systemRules |-> [DefaultRules EXCEPT !.xpCurve = "linear"]],
     [systemRules |-> [DefaultRules EXCEPT !.xpBase = Num(7, 1), !.xpFactor = Num(5, 2)]]}

\* What localStorage can hold when the page is opened.
StoredAtMount == {NoItem, NotJson} \cup {stringify(p) : p \in SavedProjects}

\* The effect of lines 46-53, and the effect of lines 56-58 with the project
\* of the render that created it.
LoadEffect == [effect |-> "load"]
SaveEffect(p) == [effect |-> "save", project |-> p]

\* Both effects run after the first commit, in the order of their hooks.
\* Under React.StrictMode a development build then runs the effects of the
\* mount a second time, before any queued state update is rendered.
EffectsOfMount(dev, p) ==
    IF dev
    THEN <<LoadEffect, SaveEffect(p), LoadEffect, SaveEffect(p)>>
    ELSE <<LoadEffect, SaveEffect(p)>>

\* setProjectState(value) and setProjectState(prev => ...) of updateProject
\* with the function of the Base XP field.
SetState(value) == [update |-> "value", value |-> value]
SetBaseXp(b) == [update |-> "xpBase", value |-> b]

\* The state after one queued update.
Reduce(prev, u) ==
    IF u.update = "value"
    THEN u.value
    ELSE [prev EXCEPT !.systemRules.xpBase = u.value]

\* The state after all queued updates, oldest first.
RECURSIVE ReduceAll(_, _)
ReduceAll(prev, queue) ==
    IF queue = <<>> THEN prev ELSE ReduceAll(Reduce(prev, Head(queue)), Tail(queue))

\* The system rules a render of this model can show, and their tables.
StoreRules ==
    {[p.systemRules EXCEPT !.xpBase = b] :
        p \in SavedProjects \cup {DefaultProject},
        b \in BaseInputs \cup {p.systemRules.xpBase : p \in SavedProjects \cup {DefaultProject}}}
StoreTables == {[rules |-> r, table |-> BuildTable(r)] : r \in StoreRules}
TableOf(rules) == (CHOOSE t \in StoreTables : t.rules = rules).table

StoreInit ==
    /\ CalcInit
    /\ CurveIdle
    /\ LoopIdle
    /\ NoteIdle
    /\ f = <<>>
    /\ lvl = 1
    /\ ret = NoResult
    /\ fnMade = FALSE
    /\ pc = "provider"
    /\ project = DefaultProject
    /\ strict \in BOOLEAN
    /\ storage \in StoredAtMount
    /\ atMount = storage
    /\ updates = <<>>
    /\ effects = EffectsOfMount(strict, project)
    /\ edits = 0

\* React runs the next effect.
RunEffect ==
    /\ pc = "provider"
    /\ effects # <<>>
    /\ effects' = Tail(effects)
    /\ IF Head(effects).effect = "load"
       THEN /\ updates' = IF storage.item = "json"
                          THEN Append(updates, SetState(parse(storage)))
                          ELSE updates
            /\ UNCHANGED storage
       ELSE /\ storage' = stringify(Head(effects).project)
            /\ UNCHANGED updates
    /\ UNCHANGED <<project, strict, atMount, edits>>
    /\ UNCHANGED <<calcVars, evalVars, curveVars, loopVars, noteVars>>

\* React renders the queued updates; every update of this provider hands over
\* a new object, so the auto-save effect follows, and the Calculator shows the
\* table of the new rules.
Render ==
    /\ pc = "provider"
    /\ effects = <<>>
    /\ updates # <<>>
    /\ project' = ReduceAll(project, updates)
    /\ updates' = <<>>
    /\ effects' = <<SaveEffect(project')>>
    /\ systemRules' = project'.systemRules
    /\ data' = TableOf(systemRules')
    /\ UNCHANGED <<storage, strict, atMount, edits>>
    /\ UNCHANGED <<evalVars, curveVars, loopVars, noteVars>>

\* updateProject(fn) from the Base XP field; React has run the waiting
\* effects before it dispatches an event.
EditBaseXp(b) ==
    /\ pc = "provider"
    /\ effects = <<>>
    /\ edits < MaxEdits
    /\ edits' = edits + 1
    /\ updates' = Append(updates, SetBaseXp(b))
    /\ UNCHANGED <<project, storage, effects, strict, atMount>>
    /\ UNCHANGED <<calcVars, evalVars, curveVars, loopVars, noteVars>>

StoreNext ==
    \/ RunEffect
    \/ Render
    \/ \E b \in BaseInputs : EditBaseXp(b)

StoreSpec == StoreInit /\ [][StoreNext]_vars

-----------------------------------------------------------------------------
(* Properties of evalFormula, stated over EvalSpec *)

Done == pc = "done"

\* C1: evaluating a formula never constructs and runs general-purpose code
\* from the author's expression.
NoDynamicCode == fnMade = FALSE

\* C2: what evalFormula returns is a finite number or the error marker,
\* never an infinite value, not-a-number, undefined, an object or an
\* exception.
FiniteKinds == {"num", "negzero", "huge", "approx"}
FiniteOrMarker == Done => (ret.t \in FiniteKinds \/ ret = Err)

\* C3: an expression that divides by zero, such as "10 / 0", returns the error
\* marker and no numeric value.
DivisionByZeroMarked == (Done /\ f = ExDivZero) => ret = Err

\* C4: when the substituted text holds a character other than digits,
\* decimal points, white space, parentheses and + - * /, evalFormula returns
\* the error marker and evaluates nothing.
HasOtherCharacter(s) == \E q \in 1..Len(s) : s[q] \notin MathChars
OtherCharactersRejected ==
    (Done /\ HasOtherCharacter(Substitute(f, lvl))) => (ret = Err /\ ~fnMade)

OtherCharacterWasRejected ==
    Done /\ f = ExDrop /\ HasOtherCharacter(Substitute(f, lvl)) /\ ret = Err /\ ~fnMade

\* C5: a stat name inside a longer token (STRVIT, 1STR) is not substituted,
\* so the expression is rejected with the error marker.
LongerTokens == {ExBackToBack, ExDigitStat}
LongerTokensRejected == (Done /\ f \in LongerTokens) => ret = Err

\* C6: a well-formed expression has the value conventional arithmetic gives
\* it; the least of them, a numeral, has the value of its decimal digits.
IsNumeral(s) == Len(s) >= 1 /\ \A q \in 1..Len(s) : s[q] \in Digits
NumeralsAreDecimal ==
    (Done /\ IsNumeral(f)) => ret = Num(DigitsValue(f, 1, Len(f) + 1, 10), 1)

\* C7: unary minus has its arithmetic value wherever an operand may stand:
\* "-5 + STR", "3 - -2", "2 * -3", "-(STR + 1)" and "--5".
UnaryMinusValue(e, i) ==
    CASE e = ExLeadingMinus -> Num(-5 + StatValue(i, 1), 1)
      [] e = ExMinusMinus -> Num(5, 1)
      [] e = ExTimesMinus -> Num(-6, 1)
      [] e = ExMinusGroup -> Num(-(StatValue(i, 1) + 1), 1)
      [] e = ExDoubleMinus -> Num(5, 1)
UnaryMinusInputs == {ExLeadingMinus, ExMinusMinus, ExTimesMinus, ExMinusGroup, ExDoubleMinus}
UnaryMinusEverywhere ==
    (Done /\ f \in UnaryMinusInputs) => ret = UnaryMinusValue(f, lvl)

-----------------------------------------------------------------------------
(* Properties of the table, stated over Spec *)

Fails(cell) == cell = Err

\* C8: a failing formula is local to its cell.  An edit of the formulas
\* alone, to failing ones included, leaves the cell of an unedited formula
\* and the xp and total of every row as they were, and the table complete.
SameCurve ==
    /\ systemRules'.xpCurve = systemRules.xpCurve
    /\ systemRules'.xpBase = systemRules.xpBase
    /\ systemRules'.xpFactor = systemRules.xpFactor
FailureIsLocalStep ==
    SameCurve =>
        /\ Len(data') = LevelCount
        /\ \A i \in 1..LevelCount :
              /\ data'[i].xp = data[i].xp
              /\ data'[i].total = data[i].total
              /\ systemRules'.formulas.hp = systemRules.formulas.hp => data'[i].hp = data[i].hp
              /\ systemRules'.formulas.mp = systemRules.formulas.mp => data'[i].mp = data[i].mp
FailureIsLocal == [][FailureIsLocalStep]_vars

FailedCellInCompleteTable ==
    /\ systemRules.formulas = [hp |-> ExDoubleMinus, mp |-> ExMp]
    /\ Len(data) = LevelCount
    /\ \A i \in 1..LevelCount : Fails(data[i].hp) /\ data[i].mp.t = "num"
    /\ data[1].mp = Num(225, 1)

\* C9: the table has exactly LevelCount rows, and their levels are
\* 1, 2, ..., LevelCount in this order.
LevelsAreContiguous ==
    /\ Len(data) = LevelCount
    /\ \A i \in 1..Len(data) : data[i].level = i

RebuiltTableHasAllLevels ==
    /\ systemRules.xpCurve = "exponential"
    /\ systemRules.xpBase = Num(10, 1)
    /\ Len(data) = LevelCount
    /\ data[1].level = 1
    /\ data[LevelCount].level = LevelCount

\* C10: in every table, the total of row i is the total of row i - 1 plus the
\* xp of row i, from a total of 0 before the first row.
TotalBefore(i) == IF i = 1 THEN Num(0, 1) ELSE data[i - 1].total
TotalIsRunningSum ==
    \A i \in 1..Len(data) : data[i].total = NumAdd(TotalBefore(i), data[i].xp)

\* Linear, base 10, factor 1.5: levels 1..6 are clamped to 100 * level, and
\* level 7 needs 105.
RunningSumPastTheClamp ==
    /\ systemRules.xpCurve = "linear"
    /\ systemRules.xpBase = Num(10, 1)
    /\ systemRules.xpFactor = Num(3, 2)
    /\ Len(data) = LevelCount
    /\ data[6].total = Num(2100, 1)
    /\ data[7].xp = Num(105, 1)
    /\ data[7].total = Num(2205, 1)

-----------------------------------------------------------------------------
(* Properties of the curve and the clamp *)

Hundred == Num(100, 1)

\* v >= 100, which no comparison with not-a-number is.
AtLeastHundred(v) == v.t \in {"num", "huge", "inf"} /\ ~NumLess(v, Hundred)

\* C11: in every table built, for every curve, base and factor, the xp of
\* every level is at least 100 after the clamp.
EveryRowAtLeastHundred == \A i \in 1..Len(data) : AtLeastHundred(data[i].xp)

Clamped == pc = "clamped"

\* C12: on the linear curve, with raw = floor(base * i * factor), the xp of
\* level i is 100 * i when raw < 100 and raw otherwise.
LinearRaw == Floor(NumMul(NumMul(cfg.base, Num(lvl, 1)), cfg.factor))
LinearClampCorrect ==
    (Clamped /\ cfg.kind = "linear") =>
        /\ xpRaw = LinearRaw
        /\ xpNeeded = IF NumLess(LinearRaw, Hundred) THEN Num(100 * lvl, 1) ELSE LinearRaw

\* Linear, base 10, factor 1.5, level 6: raw is 90, the xp is 600.
LinearLevelClamped ==
    /\ Clamped
    /\ cfg = [kind |-> "linear", base |-> Num(10, 1), factor |-> Num(3, 2)]
    /\ lvl = 6
    /\ xpRaw = Num(90, 1)
    /\ xpNeeded = Num(600, 1)

\* C13: the table is a function of the rules it is built from alone: builds
\* from identical rules give identical rows, whatever was built before, and
\* no build starts from the total of an earlier one.
TableDependsOnRulesOnly == data = BuildTable(systemRules)

\* A table rebuilt after edits of the curve and of a formula.
RebuiltAfterEdits ==
    /\ systemRules.xpCurve = "linear"
    /\ systemRules.xpFactor = Num(2, 1)
    /\ systemRules.formulas.hp = ExDrop
    /\ Len(data) = LevelCount
    /\ data[1].total = data[1].xp
    /\ data = BuildTable(systemRules)

\* C14: with the quadratic curve, base 100 and factor 1.5, the first three
\* rows have xp 100, 200, 135 (raw 15 and 60 clamped, 135 kept) and totals
\* 100, 300, 435.
IsExampleCurve ==
    /\ systemRules.xpCurve = "quadratic"
    /\ systemRules.xpBase = Num(100, 1)
    /\ systemRules.xpFactor = Num(3, 2)
QuadraticExample ==
    IsExampleCurve =>
        /\ Len(data) >= 3
        /\ <<data[1].xp, data[2].xp, data[3].xp>> = <<Num(100, 1), Num(200, 1), Num(135, 1)>>
        /\ <<data[1].total, data[2].total, data[3].total>>
             = <<Num(100, 1), Num(300, 1), Num(435, 1)>>

\* The example curve in a table built again after an edit of the MP formula.
QuadraticExampleRebuilt ==
    /\ IsExampleCurve
    /\ systemRules.formulas.mp = ExDoubleMinus
    /\ data[1].level = 1
    /\ data[3].xp = Num(135, 1)
    /\ data[3].total = Num(435, 1)

\* C15: the clamp tests against a flat 100 and replaces by 100 * level: from
\* level 2 on a raw value with 100 <= raw < 100 * level is kept, and a raw
\* value below 100 becomes 100 * level.
FlatTestScaledReplacement ==
    Clamped =>
        /\ (lvl >= 2 /\ AtLeastHundred(xpRaw) /\ NumLess(xpRaw, Num(100 * lvl, 1)))
              => xpNeeded = xpRaw
        /\ NumLess(xpRaw, Hundred) => xpNeeded = Num(100 * lvl, 1)

\* Linear, base 10, factor 1.5, level 7: raw is 105, below 700, and kept.
RawBetweenHundredAndLevelFloor ==
    /\ Clamped
    /\ cfg = [kind |-> "linear", base |-> Num(10, 1), factor |-> Num(3, 2)]
    /\ lvl = 7
    /\ xpRaw = Num(105, 1)
    /\ xpNeeded = Num(105, 1)

\* C16: on the quadratic curve the raw experience of a level is
\* floor(base * level^2 * factor / 10), one floor over the whole quotient,
\* and the clamp is applied to that.
QuadraticQuotient ==
    NumDiv(NumMul(NumMul(cfg.base, Num(lvl * lvl, 1)), cfg.factor), Num(10, 1))
QuadraticFloorsOnce ==
    (Clamped /\ cfg.kind = "quadratic") =>
        /\ xpRaw = Floor(QuadraticQuotient)
        /\ xpNeeded = IF NumLess(xpRaw, Hundred) THEN Num(100 * lvl, 1) ELSE xpRaw

\* Quadratic, base 7, factor 1.5, level 11: 7 * 121 * 1.5 / 10 = 127.05.
QuadraticFractionFloored ==
    /\ Clamped
    /\ cfg = [kind |-> "quadratic", base |-> Num(7, 1), factor |-> Num(3, 2)]
    /\ lvl = 11
    /\ QuadraticQuotient = Num(2541, 20)
    /\ xpRaw = Num(127, 1)
    /\ xpNeeded = Num(127, 1)

\* C17: on the exponential curve, and for every kind that is neither linear
\* nor quadratic, the raw experience of a level is floor(base * factor^level),
\* and the clamp is applied to that.
ExponentialProduct == NumMul(cfg.base, NumPow(cfg.factor, Num(lvl, 1)))
ExponentialIsTheDefault ==
    (Clamped /\ cfg.kind \notin {"linear", "quadratic"}) =>
        /\ xpRaw = Floor(ExponentialProduct)
        /\ xpNeeded = IF NumLess(xpRaw, Hundred) THEN Num(100 * lvl, 1) ELSE xpRaw

\* A kind the select does not offer, base 10, factor 1.5, level 7:
\* 10 * 1.5^7 = 170.859375.
UnknownKindIsExponential ==
    /\ Clamped
    /\ cfg = [kind |-> "other", base |-> Num(10, 1), factor |-> Num(3, 2)]
    /\ lvl = 7
    /\ ExponentialProduct = Num(21870, 128)
    /\ xpRaw = Num(170, 1)
    /\ xpNeeded = Num(170, 1)

\* C18: the experience of a level is a defined number for every base and
\* factor, negative and not-a-number included, and the clamp makes it a
\* positive value of at least 100.
DegenerateInputAbsorbed == Clamped => AtLeastHundred(xpNeeded)

\* C19: a text that passes the whitelist and is no expression over numbers,
\* + - * / and parentheses gives the error marker, never a value: "2 ** 3",
\* "1 // 2", "/1/", a blank, "()", "(1", "1..2".
Malformed ==
    {ExPower, ExSlashSlash, ExSlashGroup, <<" ">>, <<"(", ")">>, <<"(", "1">>, ExDotDot}
MalformedRejected == (Done /\ f \in Malformed) => ret = Err

\* C20: the snapshot of a level gives each of STR, VIT, INT and WIS the value
\* 10 + level * 5, and a row is evaluated with the snapshot of its own level.
StatOfLevel(i) == 10 + i * 5
SnapshotOfOwnLevel ==
    /\ \A i \in 1..LevelCount : \A k \in 1..Len(StatKeys) :
          evalFormula(StatKeys[k], i).ret = Num(StatOfLevel(i), 1)
    /\ \A i \in 1..Len(data) :
          /\ systemRules.formulas.hp = ExHp
                => data[i].hp = Num(StatOfLevel(data[i].level) * 10 + 50, 1)
          /\ systemRules.formulas.mp = ExMp
                => data[i].mp = Num(StatOfLevel(data[i].level) * 10
                                      + StatOfLevel(data[i].level) * 5, 1)

\* The default formulas in a table built again for the linear curve: level
\* 20 has stats of 110.
LastRowUsesItsOwnSnapshot ==
    /\ systemRules.xpCurve = "linear"
    /\ systemRules.formulas = [hp |-> ExHp, mp |-> ExMp]
    /\ Len(data) = LevelCount
    /\ data[1].hp = Num(200, 1)
    /\ data[LevelCount].hp = Num(1150, 1)
    /\ data[LevelCount].mp = Num(1650, 1)

-----------------------------------------------------------------------------
(* Properties of the table of a loaded project, stated over TableSpec *)

Loaded == pc = "loaded"

\* C21: every row holds one evaluated cell for each named formula of the
\* formula set, whatever its names are: the names of the row's derived cells
\* are exactly the names of the formulas.
DerivedNames(row) == DOMAIN row \ {"level", "xp", "total"}
OneCellPerNamedFormula ==
    \A i \in 1..Len(data) : DerivedNames(data[i]) = DOMAIN systemRules.formulas

\* C22: a row is determined by the curve, the formulas and its level alone.
\* The row of level L in a table is the row computed for L from nothing but
\* the rules, whatever table was built before and however many rows follow.
XpAt(rules, L) == Clamp(RawNeeded(rules.xpCurve, rules.xpBase, rules.xpFactor, L), L)
RECURSIVE TotalAt(_, _)
TotalAt(rules, L) ==
    IF L = 0 THEN Num(0, 1) ELSE NumAdd(TotalAt(rules, L - 1), XpAt(rules, L))
RowAt(rules, L) ==
    [level |-> L, xp |-> XpAt(rules, L), total |-> TotalAt(rules, L),
     hp |-> evalFormula(rules.formulas.hp, L).ret,
     mp |-> evalFormula(rules.formulas.mp, L).ret]
RowDeterminedByLevel ==
    \A L \in 1..Len(data) : data[L] = RowAt(systemRules, L)

\* A loaded project with the linear curve, base 7 and factor 1.5: levels 1 to
\* 9 are clamped, level 10 needs 105, and its stats are 60.
RowTenOfLoadedTable ==
    /\ Loaded
    /\ systemRules.xpCurve = "linear"
    /\ systemRules.xpBase = Num(7, 1)
    /\ systemRules.xpFactor = Num(3, 2)
    /\ systemRules.formulas.hp = ExHp
    /\ Len(data) = LevelCount
    /\ data[10].xp = Num(105, 1)
    /\ data[10].total = Num(4605, 1)
    /\ data[10].hp = Num(650, 1)

\* C26, as claimed: for a finite base and a finite factor the total grows
\* from every row to the next and is at least 100 * level.  A comparison the
\* model does not decide, one with a number above MaxExact, counts as the
\* claim has it.
IsFiniteNumber(v) == v.t \in {"num", "negzero", "huge", "approx", "max"}
FiniteCurve(rules) == IsFiniteNumber(rules.xpBase) /\ IsFiniteNumber(rules.xpFactor)
Undecided(a, b) == a.t \in {"huge", "approx", "max"} \/ b.t \in {"huge", "approx", "max"}
Exceeds(a, b) ==
    CASE a.t = "nan" \/ b.t = "nan" -> FALSE
      [] a.t = "inf" \/ b.t = "inf" -> NumLess(b, a)
      [] Undecided(a, b) -> TRUE
      [] OTHER -> NumLess(b, a)
TotalStrictlyIncreasing ==
    FiniteCurve(systemRules) =>
        \A i \in 1..Len(data) :
            /\ Exceeds(data[i].total, TotalBefore(i))
            /\ Exceeds(data[i].total, Num(100 * i - 1, 1))

\* C26, amended: for a finite base and a finite factor, every total the
\* doubles hold exactly (here: every tracked one) is above the total of the
\* row before it and is at least 100 * level.
TrackedTotalStrictlyIncreasing ==
    FiniteCurve(systemRules) =>
        \A i \in 1..Len(data) :
            data[i].total.t = "num" =>
                /\ NumLess(TotalBefore(i), data[i].total)
                /\ ~NumLess(data[i].total, Num(100 * i, 1))

\* A loaded project with the linear curve, base 7 and factor 1.5: the totals
\* of the clamped levels 1 to 9 and of the unclamped levels 10 to 20.
TotalsOfLoadedLinearTable ==
    /\ Loaded
    /\ systemRules.xpCurve = "linear"
    /\ systemRules.xpBase = Num(7, 1)
    /\ systemRules.xpFactor = Num(3, 2)
    /\ data[9].total = Num(4500, 1)
    /\ data[10].total = Num(4605, 1)
    /\ data[LevelCount].total = Num(6230, 1)

-----------------------------------------------------------------------------
(* Properties of the memoized table, stated over Spec *)

\* C24: the table shown is coherent with its key.  After any edits of the
\* curve, the base, the factor and the two formulas it has all levels, and
\* each row is the one a build from the current values gives, so no table
\* kept for other values is shown.
ShownTableIsFreshBuild ==
    /\ Len(data) = LevelCount
    /\ \A L \in 1..LevelCount : data[L] = RowAt(systemRules, L)

\* Every control edited: the linear curve, base 10, factor 2, and two failing
\* formulas.
CoherentAfterFiveEdits ==
    /\ systemRules =
          [xpCurve |-> "linear", xpBase |-> Num(10, 1), xpFactor |-> Num(2, 1),
           formulas |-> [hp |-> ExDrop, mp |-> ExDoubleMinus]]
    /\ data[4].xp = Num(400, 1)
    /\ data[7].xp = Num(140, 1)
    /\ data[7].hp = Err
    /\ data[7].mp = Err

\* C25: the experience columns do not depend on the formulas.  An edit that
\* leaves the curve, the base and the factor as they are, whatever it makes of
\* the formulas, leaves level, xp and total of every row as they are.
ExperienceColumns(rows) ==
    [L \in 1..Len(rows) |-> <<rows[L].level, rows[L].xp, rows[L].total>>]
FormulaEditKeepsExperience ==
    SameCurve => ExperienceColumns(data') = ExperienceColumns(data)
ExperienceIgnoresFormulas == [][FormulaEditKeepsExperience]_vars

\* The default curve with both formulas edited to failing ones: row 3 still
\* needs 135 of a total of 435.
ExperienceKeptUnderFailingFormulas ==
    /\ systemRules = [DefaultRules EXCEPT !.formulas = [hp |-> ExDrop, mp |-> ExDoubleMinus]]
    /\ Len(data) = LevelCount
    /\ data[3].xp = Num(135, 1)
    /\ data[3].total = Num(435, 1)
    /\ data[3].hp = Err

-----------------------------------------------------------------------------
(* Properties of the loop, stated over LoopSpec *)

\* C23: the build terminates for every curve and formula set: the rows never
\* outnumber the levels, and the callback returns a table of all of them.
BuildTerminates ==
    [](Len(loopRows) <= LevelCount) /\ <>(pc = "returned" /\ Len(data) = LevelCount)

\* A build that has returned its table for formulas that all fail.
ReturnedWithFailingFormulas ==
    /\ pc = "returned"
    /\ systemRules.formulas = [hp |-> ExDivZero, mp |-> ExDrop]
    /\ Len(data) = LevelCount
    /\ data[LevelCount].mp = Err

------------------------------------------------------------------------------
(* Properties of the notifications, stated over NoteSpec *)

\* The callback of a timer removes the message that the call which started
\* the timer had added.
TimerRemovesOwnMessage ==
    calls' = calls =>
        /\ notifications # <<>>
        /\ Head(notifications).call = Head(timers)
        /\ notifications' = Tail(notifications)

\* C27: as many notifications are shown as timers are pending, each timer
\* removes the message of the call that started it, and once no further
\* notification is added the list becomes empty.
RemovedByOwnTimers ==
    /\ [](Len(notifications) = Len(timers))
    /\ [][TimerRemovesOwnMessage]_vars
    /\ \A k \in 1..MaxCalls : (calls = k) ~> (notifications = <<>> \/ calls > k)

\* The timer of the first of three calls has fired; the messages of the
\* second and third call are shown.
FirstOfThreeRemoved ==
    /\ calls = 3
    /\ Len(notifications) = 2
    /\ notifications[1].call = 2
    /\ timers = <<2, 3>>

------------------------------------------------------------------------------
(* Properties of the stored project, stated over StoreSpec *)

\* Nothing is left for React to run.
Settled == effects = <<>> /\ updates = <<>>

\* C28: once the effects of the mount and the render they cause have run, the
\* project in memory and the project in the storage are the project that was
\* saved before the page was opened.
SavedProjectSurvivesStartUp ==
    (pc = "provider" /\ Settled /\ edits = 0 /\ atMount.item = "json") =>
        /\ project = parse(atMount)
        /\ storage = atMount





=============================================================================
